---- MODULE Spec2Model ----
(***************************************************************************)
(* The chat service of Medical-Chat-Bot: module initialisation and the     *)
(* /api/chat handler, in its two entry modules, src/app.py (Flask) and     *)
(* src/app/main.py (FastAPI).                                              *)
(*                                                                         *)
(* Text is a sequence of one-character strings, so that str.strip() and    *)
(* the f-string of the fallback answer are computed, not assumed.          *)
(* A Python value is a record [t, s, d]: t its type, s its text when it    *)
(* is a str, d its items when it is a dict.                               *)
(***************************************************************************)
EXTENDS Naturals, Sequences, FiniteSets, TLC

\* Longest request message, in characters.
MaxLen == 3

Alphabet == {" ", "a"}
Whitespace == {" "}

Texts == UNION {[1..n -> Alphabet] : n \in 0..MaxLen}

NoDict == [k \in {} |-> <<>>]

PyStr(s) == [t |-> "str", s |-> s, d |-> NoDict]
PyNone == [t |-> "NoneType", s |-> <<>>, d |-> NoDict]
PyDict(d) == [t |-> "dict", s |-> <<>>, d |-> d]
\* A value that is neither str nor dict and that JSON cannot encode.
PyObject == [t |-> "object", s |-> <<>>, d |-> NoDict]

\* Python truthiness of the values above.
Truthy(v) ==
    CASE v.t = "str" -> v.s # <<>>
      [] v.t = "NoneType" -> FALSE
      [] v.t = "dict" -> DOMAIN v.d # {}
      [] OTHER -> TRUE

\* a or b
Or(a, b) == IF Truthy(a) THEN a ELSE b

\* d.get(k)
Get(d, k) == IF k \in DOMAIN d THEN d[k] ELSE PyNone

----------------------------------------------------------------------------
\* str.strip()

RECURSIVE lstrip(_)
lstrip(s) == IF s # <<>> /\ Head(s) \in Whitespace THEN lstrip(Tail(s)) ELSE s

RECURSIVE rstrip(_)
rstrip(s) ==
    IF s # <<>> /\ s[Len(s)] \in Whitespace
    THEN rstrip(SubSeq(s, 1, Len(s) - 1))
    ELSE s

\* a handler that forgets to trim
strip_missing(s) == s

strip(s) == rstrip(lstrip(s))

----------------------------------------------------------------------------
\* The request bodies a client can post to /api/chat.

Shapes == {"unparsable", "non_object", "no_message", "non_string", "string"}

Bodies ==
    {[shape |-> sh, message |-> <<>>] : sh \in Shapes \ {"string"}}
        \cup {[shape |-> "string", message |-> m] : m \in Texts}

NoBody == [shape |-> "none", message |-> <<>>]

\* request.get_json(force=True) and data.get("message", "").strip(): whether
\* they raise, and the user_message they give.
FlaskMessage(b) ==
    CASE b.shape = "unparsable" -> [raised |-> TRUE, user_message |-> <<>>]
      [] b.shape = "non_object" -> [raised |-> TRUE, user_message |-> <<>>]
      [] b.shape = "non_string" -> [raised |-> TRUE, user_message |-> <<>>]
      [] b.shape = "no_message" -> [raised |-> FALSE, user_message |-> strip(<<>>)]
      [] OTHER -> [raised |-> FALSE, user_message |-> strip(b.message)]

\* payload: ChatRequest, with message: str
ChatRequest(b) == b.shape = "string"

----------------------------------------------------------------------------
\* What rag_chain.invoke can return.

Keys == {"answer", "response", "output"}
Values == {PyStr(<<>>), PyStr(<<"X">>), PyStr(<<"Y">>), PyObject}
Dicts == UNION {[K -> Values] : K \in SUBSET Keys}

Outputs ==
    {PyDict(d) : d \in Dicts}
        \cup {PyStr(<<>>), PyStr(<<"S">>), PyNone, PyObject}

\* str(response_obj)
Str(v) ==
    CASE v.t = "str" -> v
      [] v.t = "NoneType" -> PyStr(<<"None">>)
      [] OTHER -> PyStr(<<"<object>">>)

\* whether {"response": v} can be encoded as JSON
Encodable(v) == v.t = "str"

\* a probe order that prefers "response"
ExtractAnswerResponseFirst(v) ==
    IF v.t = "dict"
    THEN Or(Get(v.d, "response"), Or(Get(v.d, "answer"), Or(Get(v.d, "output"), PyStr(<<>>))))
    ELSE Str(v)

ExtractAnswer(v) ==
    IF v.t = "dict"
    THEN Or(Get(v.d, "answer"), Or(Get(v.d, "response"), Or(Get(v.d, "output"), PyStr(<<>>))))
    ELSE Str(v)

NoAnswerPrefix == <<"(No answer generated) You asked: ">>

\* a fallback that drops the question
FallbackNoEcho(um) == PyStr(NoAnswerPrefix)

Fallback(um) == PyStr(NoAnswerPrefix \o um)

\* an answer returned as extracted
FinalAnswerNoFallback(a, um) == a

FinalAnswer(a, um) == IF ~Truthy(a) THEN Fallback(um) ELSE a

----------------------------------------------------------------------------
VARIABLES
    framework,          \* the entry module served: "flask" (app.py) or "fastapi" (app/main.py)
    pinecone_api_key,   \* os.environ.get("pinecone_api_key")
    groq_api_key,       \* os.environ.get("groq_api_key")
    phase,              \* position of module initialisation
    retriever,          \* module global
    chat_llm,           \* module global
    rag_chain,          \* module global
    pc,                 \* position of the request in chat()
    body,               \* the body of the request being served
    user_message,       \* local of chat()
    response_obj,       \* local of chat()
    calls,              \* the external calls made for this request, in order
    fault,              \* the place where something raised in this request
    response            \* what the client receives

globals == <<framework, pinecone_api_key, groq_api_key, phase, retriever, chat_llm, rag_chain>>
locals == <<body, user_message, response_obj>>
vars == <<globals, pc, locals, calls, fault, response>>

\* os.environ.get gives None for an unset variable; a variable can also be set empty.
EnvValues == {"None", "", "key"}

NoResponse == [status |-> 0, kind |-> "none", text |-> <<>>]
Respond(st, k) == [status |-> st, kind |-> k, text |-> <<>>]

NoChain == [t |-> "None", retriever |-> "None", combine_docs_chain |-> "None"]

\* a chain wired without its retriever
create_retrieval_chain_no_retriever(r, c) ==
    [t |-> "chain", retriever |-> "None", combine_docs_chain |-> c]

create_retrieval_chain(r, c) ==
    [t |-> "chain", retriever |-> r, combine_docs_chain |-> c]

Init ==
    /\ framework \in {"flask", "fastapi"}
    /\ pinecone_api_key \in EnvValues
    /\ groq_api_key \in EnvValues
    /\ phase = "vector_store"
    /\ retriever = "unset"
    /\ chat_llm = "unset"
    /\ rag_chain = NoChain
    /\ pc = "idle"
    /\ body = NoBody
    /\ user_message = <<>>
    /\ response_obj = PyNone
    /\ calls = <<>>
    /\ fault = "none"
    /\ response = NoResponse

\* The try block that builds embeddings, vector and retriever. It can succeed only
\* with the index credential; with it, the download or the index lookup can still fail.
InitVectorStore ==
    /\ phase = "vector_store"
    /\ \E ok \in BOOLEAN :
        /\ ok => pinecone_api_key = "key"
        /\ retriever' = IF ok THEN "retriever" ELSE "None"
    /\ phase' = "llm"
    /\ UNCHANGED <<framework, pinecone_api_key, groq_api_key, chat_llm, rag_chain>>
    /\ UNCHANGED <<pc, locals, calls, fault, response>>

\* ChatGroq(api_key=groq_api_key, ...) up to the rag_chain assignment; none of it is
\* inside a try. Without the credential the client either refuses to be constructed
\* or is constructed and fails on use, depending on the installed client library.
InitChain ==
    /\ phase = "llm"
    /\ \E raises \in BOOLEAN :
        /\ raises => groq_api_key # "key"
        /\ IF raises
           THEN /\ phase' = "crashed"
                /\ UNCHANGED <<chat_llm, rag_chain>>
           ELSE /\ phase' = "serving"
                /\ chat_llm' = IF groq_api_key = "key" THEN "ChatGroq" ELSE "ChatGroq_no_key"
                /\ rag_chain' = IF retriever # "None"
                                THEN create_retrieval_chain(retriever, "stuff_documents_chain")
                                ELSE NoChain
    /\ UNCHANGED <<framework, pinecone_api_key, groq_api_key, retriever>>
    /\ UNCHANGED <<pc, locals, calls, fault, response>>

----------------------------------------------------------------------------
\* The responses of /api/chat.

NotInitialized == Respond(500, "not initialized")
EmptyMessage == Respond(400, "empty message")
InternalError == Respond(500, "internal server error")
\* the framework's answer to a body that is no ChatRequest
ValidationError == Respond(422, "validation error")
\* an exception that leaves chat(): the server answers for the handler
Unhandled == Respond(500, "unhandled exception")

\* a failed chain call reported by the outer handler
ChainErrorAsInternal == Respond(500, "internal server error")

ChainError == Respond(500, "chain invocation error")

\* an except branch that logs and goes on
OnRetrievalErrorGoOn == [pc |-> "generating", response |-> NoResponse]

OnRetrievalError == [pc |-> "done", response |-> Respond(500, "retrieval error")]

Completed(a) == [status |-> 200, kind |-> "response", text |-> a.s]

----------------------------------------------------------------------------
\* One request at a time: chat() shares nothing between requests.

\* A client posts a body. Under FastAPI the payload is bound to ChatRequest
\* before chat() is entered.
receive(b) ==
    /\ phase = "serving"
    /\ pc = "idle"
    /\ body' = b
    /\ pc' = IF framework = "fastapi" THEN "binding" ELSE "entered"
    /\ UNCHANGED <<globals, user_message, response_obj, calls, fault, response>>

bind_payload ==
    /\ pc = "binding"
    /\ IF ChatRequest(body)
       THEN /\ pc' = "entered"
            /\ UNCHANGED <<fault, response>>
       ELSE /\ pc' = "done"
            /\ fault' = "body"
            /\ response' = ValidationError
    /\ UNCHANGED <<globals, locals, calls>>

\* if not rag_chain
chat_check_chain ==
    /\ pc = "entered"
    /\ IF rag_chain.t = "None"
       THEN /\ pc' = "done"
            /\ response' = NotInitialized
       ELSE /\ pc' = "validating"
            /\ UNCHANGED response
    /\ UNCHANGED <<globals, locals, calls, fault>>

\* user_message = ....strip(); if not user_message
chat_validate ==
    /\ pc = "validating"
    /\ LET m == IF framework = "flask"
                THEN FlaskMessage(body)
                ELSE [raised |-> FALSE, user_message |-> strip(body.message)]
       IN IF m.raised
          THEN /\ pc' = "done"
               /\ fault' = "body"
               /\ response' = InternalError
               /\ UNCHANGED user_message
          ELSE /\ user_message' = m.user_message
               /\ UNCHANGED fault
               /\ IF m.user_message = <<>>
                  THEN pc' = "done" /\ response' = EmptyMessage
                  ELSE pc' = "retrieving" /\ UNCHANGED response
    /\ UNCHANGED <<globals, body, response_obj, calls>>

\* retriever.get_relevant_documents(user_message)
chat_retrieve ==
    /\ pc = "retrieving"
    /\ calls' = Append(calls, "retriever")
    /\ \E raises \in BOOLEAN :
        IF raises
        THEN /\ fault' = "retriever"
             /\ pc' = OnRetrievalError.pc
             /\ response' = OnRetrievalError.response
        ELSE /\ pc' = "generating"
             /\ UNCHANGED <<fault, response>>
    /\ UNCHANGED <<globals, locals>>

\* rag_chain.invoke({"input": user_message}), first half: the chain built by
\* create_retrieval_chain queries its retriever.
chat_invoke_retrieve ==
    /\ pc = "generating"
    /\ LET has == rag_chain.retriever # "None"
       IN /\ calls' = calls \o <<"rag_chain">> \o (IF has THEN <<"retriever">> ELSE <<>>)
          /\ \E raises \in BOOLEAN :
              /\ raises => has
              /\ IF raises
                 THEN /\ fault' = "chain_retriever"
                      /\ pc' = "done"
                      /\ response' = ChainError
                 ELSE /\ pc' = "combining"
                      /\ UNCHANGED <<fault, response>>
    /\ UNCHANGED <<globals, locals>>

\* rag_chain.invoke, second half: the documents chain calls the model.
chat_invoke_llm ==
    /\ pc = "combining"
    /\ calls' = Append(calls, "llm")
    /\ \/ /\ fault' = "llm"
          /\ pc' = "done"
          /\ response' = ChainError
          /\ UNCHANGED response_obj
       \/ /\ chat_llm = "ChatGroq"
          /\ \E out \in Outputs : response_obj' = out
          /\ pc' = "extracting"
          /\ UNCHANGED <<fault, response>>
    /\ UNCHANGED <<globals, body, user_message>>

\* Extract the answer, fall back, return it. Flask encodes the answer with jsonify
\* inside the outer try; FastAPI has no outer try, and encodes what chat() returned.
chat_extract ==
    /\ pc = "extracting"
    /\ pc' = "done"
    /\ LET answer == FinalAnswer(ExtractAnswer(response_obj), user_message)
       IN IF Encodable(answer)
          THEN /\ response' = Completed(answer)
               /\ UNCHANGED fault
          ELSE /\ fault' = "encode"
               /\ response' = IF framework = "flask" THEN InternalError ELSE Unhandled
    /\ UNCHANGED <<globals, locals, calls>>

\* The response is sent; nothing of the request is kept.
finish ==
    /\ pc = "done"
    /\ pc' = "idle"
    /\ body' = NoBody
    /\ user_message' = <<>>
    /\ response_obj' = PyNone
    /\ calls' = <<>>
    /\ fault' = "none"
    /\ response' = NoResponse
    /\ UNCHANGED globals

Next ==
    \/ InitVectorStore
    \/ InitChain
    \/ \E b \in Bodies : receive(b)
    \/ bind_payload
    \/ chat_check_chain
    \/ chat_validate
    \/ chat_retrieve
    \/ chat_invoke_retrieve
    \/ chat_invoke_llm
    \/ chat_extract
    \/ finish

Spec == Init /\ [][Next]_vars

----------------------------------------------------------------------------
\* Vocabulary of the properties.

Count(seq, x) == Cardinality({i \in DOMAIN seq : seq[i] = x})
Blank(s) == \A i \in DOMAIN s : s[i] \in Whitespace
Prefix(s, u) == Len(s) <= Len(u) /\ SubSeq(u, 1, Len(s)) = s
Uninitialized == rag_chain.t = "None"
Ended == pc = "done"

\* the first key, in the order answer, response, output, that is present and non-empty
NonEmptyAt(d, k) == k \in DOMAIN d /\ ~(d[k].t = "str" /\ d[k].s = <<>>)
FirstUsable(d) ==
    IF NonEmptyAt(d, "answer") THEN d["answer"]
    ELSE IF NonEmptyAt(d, "response") THEN d["response"]
    ELSE IF NonEmptyAt(d, "output") THEN d["output"]
    ELSE PyStr(<<>>)

EmptyOutput(v) ==
    \/ v.t = "dict" /\ DOMAIN v.d = {}
    \/ v.t = "str" /\ v.s = <<>>

FullTrace == <<"retriever", "rag_chain", "retriever", "llm">>

----------------------------------------------------------------------------
\* C1: a request that ends with 200 never carries an empty response text,
\* whatever rag_chain.invoke returned.
C1_ResponseNeverEmpty ==
    (Ended /\ response.status = 200) => response.text # <<>>

\* a 200 was returned for a mapping whose three keys are all present and empty
C1_Witness ==
    /\ Ended /\ response.status = 200
    /\ response_obj.t = "dict" /\ DOMAIN response_obj.d = Keys
    /\ \A k \in Keys : response_obj.d[k].s = <<>>

\* C2 (as stated): an empty or whitespace-only message ends in 400 with no
\* Retriever or Generator call, whether or not the pipeline is initialized.
C2_BlankAlways400 ==
    (Ended /\ body.shape = "string" /\ Blank(body.message))
        => (response.status = 400 /\ calls = <<>>)

\* C2 (amended): an empty or whitespace-only message never reaches the Retriever
\* or the Generator; it ends in 400 "empty message" when the pipeline is initialized
\* and in 500 "not initialized" when it is not.
C2_BlankRejected ==
    (body.shape = "string" /\ Blank(body.message)) =>
        /\ calls = <<>>
        /\ pc \notin {"retrieving", "generating", "combining", "extracting"}
        /\ Ended =>
            IF Uninitialized
            THEN response.status = 500 /\ response.kind = "not initialized"
            ELSE response.status = 400 /\ response.kind = "empty message"

\* a whitespace-only message of positive length was rejected with 400
C2_Witness ==
    /\ Ended /\ body.shape = "string"
    /\ body.message # <<>> /\ Blank(body.message)
    /\ response.status = 400

\* C3: with rag_chain None every request, whatever its body, ends in the 500
\* "not initialized" response without a Retriever or Generator call.
C3_UninitializedAlways500 ==
    (Ended /\ Uninitialized) =>
        /\ response.status = 500
        /\ response.kind = "not initialized"
        /\ calls = <<>>

\* C4 (as stated): a Retriever that raises during a request gives a 500 retrieval
\* error and the Generator is never invoked in that request.
C4_RetrieverFailureIsRetrievalError ==
    (Ended /\ fault \in {"retriever", "chain_retriever"}) =>
        /\ response.status = 500
        /\ response.kind = "retrieval error"
        /\ Count(calls, "rag_chain") = 0

\* C4 (amended): a Retriever that raises on the handler's own call, the one made
\* before the chain is invoked, ends the request with a 500 retrieval error, and the
\* Generator is never invoked in that request.
C4_DirectRetrieverFailure ==
    fault = "retriever" =>
        /\ Ended
        /\ response.status = 500
        /\ response.kind = "retrieval error"
        /\ calls = <<"retriever">>

\* the handler's own retriever call raised for a message with inner whitespace
C4_Witness ==
    /\ Ended /\ fault = "retriever"
    /\ user_message = <<"a", " ", "a">>

\* C5: a chain invocation that raises ends the request with a 500 generation error
\* after exactly one invocation of the chain.
C5_ChainFailureOnce ==
    fault \in {"chain_retriever", "llm"} =>
        /\ Ended
        /\ response.status = 500
        /\ response.kind = "chain invocation error"
        /\ Count(calls, "rag_chain") = 1

\* the model call inside the chain raised
C5_Witness == Ended /\ fault = "llm" /\ response.status = 500

\* C6: on a mapping the answer is the value of the first of answer, response,
\* output that is present and non-empty: a text value is the response returned, a
\* value JSON cannot encode fails the request; with no such key the fallback is
\* returned.
C6_KeyPriority ==
    (Ended /\ response_obj.t = "dict") =>
        LET first == FirstUsable(response_obj.d)
        IN CASE first.t = "object" -> response.status = 500
             [] first.t = "str" /\ first.s # <<>> ->
                    response.status = 200 /\ response.text = first.s
             [] OTHER ->
                    response.status = 200 /\ Prefix(NoAnswerPrefix, response.text)

\* "answer" present and empty, "response" and "output" hold different values
C6_Witness ==
    /\ Ended /\ response.status = 200 /\ response_obj.t = "dict"
    /\ DOMAIN response_obj.d = Keys
    /\ response_obj.d["answer"].s = <<>>
    /\ response_obj.d["response"].s = <<"X">>
    /\ response_obj.d["output"].s = <<"Y">>
    /\ response.text = <<"X">>

\* C7 (as stated): for an empty mapping or an empty string the answer is the
\* fallback template applied to the original text of the request's message.
C7_FallbackEchoesOriginal ==
    (Ended /\ response.status = 200 /\ EmptyOutput(response_obj)) =>
        response.text = NoAnswerPrefix \o body.message

\* C7 (amended): for an empty mapping or an empty string the answer is the fallback
\* template applied to the trimmed text of the request's message.
C7_FallbackEchoesTrimmed ==
    (Ended /\ response.status = 200 /\ EmptyOutput(response_obj)) =>
        response.text = NoAnswerPrefix \o strip(body.message)

\* the fallback was returned for a message that trimming changes
C7_Witness ==
    /\ Ended /\ response.status = 200 /\ EmptyOutput(response_obj)
    /\ body.message # strip(body.message)

\* C8: with a credential absent, module initialisation still completes and the
\* service is in the uninitialized state.
C8_MissingCredentialDegrades ==
    (pinecone_api_key # "key" \/ groq_api_key # "key") =>
        /\ phase # "crashed"
        /\ phase = "serving" => Uninitialized

\* C9: every request ends with a status of 200, 400 or 500 decided by the
\* handler, and a failure outside validation, retrieval and generation gives the
\* internal-error response.
C9_AllFailuresHandled ==
    Ended =>
        /\ response.status \in {200, 400, 500}
        /\ response.kind # "unhandled exception"
        /\ fault \in {"body", "encode"} => response.kind = "internal server error"

\* C10 (as stated): the Retriever is called exactly once per request, before any
\* Generator call, and its failure is always reported as a retrieval error.
C10_RetrieverOnce ==
    /\ calls # <<>> => (calls[1] = "retriever" /\ Count(calls, "retriever") = 1)
    /\ (Ended /\ fault \in {"retriever", "chain_retriever"})
            => response.kind = "retrieval error"

\* C10 (amended): the handler calls the Retriever first, before the chain; the
\* chain then queries the Retriever a second time before it calls the model, so a
\* completed request has called it exactly twice; a failure of the first call is
\* reported as a retrieval error and a failure of the second as a generation error.
C10_RetrieverTwice ==
    /\ Prefix(calls, FullTrace)
    /\ (Ended /\ response.status = 200) => calls = FullTrace
    /\ (Ended /\ fault = "retriever") => response.kind = "retrieval error"
    /\ (Ended /\ fault = "chain_retriever") =>
            (response.kind = "chain invocation error" /\ Count(calls, "llm") = 0)

\* the Retriever raised inside the chain invocation
C10_Witness ==
    /\ Ended /\ fault = "chain_retriever"
    /\ calls = <<"retriever", "rag_chain", "retriever">>

====
